---- MODULE Spec2Model ----
(***************************************************************************)
(* Verification model of IECC-io/ehi-n-dashboard.                          *)
(*                                                                         *)
(* Part 1: the lookup-table query engine, src/scripts/ehi_lookup.py.       *)
(*                                                                         *)
(* Units.  Every float of the query path is modelled by an exact integer:  *)
(*   temperatures  in quarter degrees Celsius   (20.0 C  = 80)             *)
(*   humidities    in half percent              (5 %     = 10)             *)
(*   temperature keys ("20.5") in tenths        ("20.5"  = 205)            *)
(*   humidity keys ("5") as the integer they spell                         *)
(*   EHI values in tenths of a degree.                                     *)
(* All values used are multiples of 1/4 (resp. 1/2), which binary floats   *)
(* hold exactly, so round(), int() and the .1f format act on them exactly  *)
(* as the integer operators below do.                                      *)
(***************************************************************************)
EXTENDS Integers, Sequences, FiniteSets, TLC

VARIABLES
    dirFound,     \* os.path.exists() of the lookup_tables directory
    files,        \* the eight table files on disk: key -> "ok" | "missing" | "malformed"
    grid,         \* what the offline builder wrote into every present file
    tables,       \* EHILookup.tables: loaded key -> table
    phase,        \* "new" | "ready" (constructed) | "failed" (constructor raised)
    ctorError,    \* the exception the constructor raised, "none" otherwise
    script,       \* the caller that runs: "grid" (generate_grid_data.py) | "recalc" (recalculate_zones.py)
    batch,        \* the caller's loop: "idle" (between points) | "running" | "aborted" (an exception escaped)
    lastQuery,    \* arguments of the most recent call-site call
    lastResult,   \* what get_ehi_zone returned or raised inside it (NoCall when it was not called)
    siteResult,   \* what the call site returned to the batch loop
    out           \* what the batch loop stored for the current point, one entry per key so far

lookupVars == <<dirFound, files, grid, tables, phase, ctorError, script, batch,
                lastQuery, lastResult, siteResult, out>>

\* Part 2: the module-level singleton of ehi_lookup.py, get_lookup(), under threads
VARIABLES
    lookup_instance,  \* the global _lookup_instance: 0 is None, n > 0 the n-th EHILookup built
    tpc,              \* thread -> "start" | "construct" | "assign" | "return" | "done"
    made,             \* thread -> the instance its EHILookup() call built (0: none)
    got,              \* thread -> the instance get_lookup() returned to it (0: not yet)
    nConstructed      \* number of EHILookup objects constructed (table loads from disk)

singletonVars == <<lookup_instance, tpc, made, got, nConstructed>>

\* Part 3: plain bisection, solve and solve_bisection of src/pilotehi350.py
VARIABLES
    solver,       \* "solve" | "solve_bisection"
    tol, maxIter, \* the arguments tol and maxIter
    x1, x2,       \* the interval given
    a, b, fa, fb, \* the locals of the function
    iter,         \* the loop variable i (iterations completed so far)
    spc,          \* "start" | "loop" | "returned" | "raised"
    sresult,      \* the value returned (None before, and when it raised)
    serror,       \* the exception raised: "none" | "InvalidBracket" | "MaxIterations"
    evals         \* the evaluations of f made so far, in order: <<point, sign of value>>

solveVars == <<solver, tol, maxIter, x1, x2, a, b, fa, fb, iter, spc, sresult, serror, evals>>

\* Part 4: the heat index of src/pilotehi350.py: modifiedheatindex, the forward
\* solver find_eqvar, the inverse solver find_T and the fallback chain
VARIABLES
    Ta0,          \* the argument Ta of modifiedheatindex is 0.
    mpc,          \* modifiedheatindex: "find_eqvar" | "find_T" | "fixup" | "returned" | "raised"
    epc,          \* find_eqvar: "Ts" | "Tf" | "flux" | "Rf" | "RsIV" | "RsV" | "done" | "raised"
    flux,         \* <<flux1, flux2>> or <<flux1, flux2, flux3>> once computed (signs), <<>> before
    psTest,       \* Ps > phi_salt * pvstar(Ts): "na" (not evaluated) | "above" | "below"
    rsSolved,     \* the values of Rs computed at lines 134 and 139, in order
    failed,       \* the errors raised by the nested root-finds of find_eqvar, in order
    eqvars,       \* the list find_eqvar returned, None before and when it raised
    chain,        \* the chain find_T runs: "none" | "plain" | "safe_solve" | "find_T_VI"
    cpc,          \* the chain: "idle" | "auto" | "smart" | "bisect" | "advanced" | "done"
    ctrace,       \* the steps of the chain invoked so far, in order: <<step, outcome>>
    fsamp,        \* the values of f at the sample points of auto_bracket_root, <<>> before
    bracket,      \* the bracket (a, b) handed from step to step, as sample indices
    Tres,         \* the T of find_T: None before, Num(..) or NaN
    region,       \* the region label of find_T, "none" before
    mresult,      \* what modifiedheatindex returned, None before
    merror,       \* the exception that left modifiedheatindex, NoError otherwise
    fed           \* find_eqvar run on the T of find_T: "none" | "within" | "beyond" | "raised"

indexVars == <<Ta0, mpc, epc, flux, psTest, rsSolved, failed, eqvars, chain, cpc, ctrace,
               fsamp, bracket, Tres, region, mresult, merror, fed>>

\* Part 5: the alert run of src/scripts/send_alerts.py
VARIABLES
    subscriber,     \* the verified subscriber of the sheet, as get_verified_subscribers parses it
    hour,           \* now_ist.hour of the most recent run
    district_data,  \* what get_district_zones made of grid_data.json in the most recent run
    alert_state,    \* weather_logs/alert_state.json: 'active_alerts' of the subscriber
    alerts,         \* the alert items check_subscriber_alerts returned in the most recent run
    runs,           \* the number of runs of main that reached the subscriber loop (capped)
    sent            \* send_alert_email of the most recent run: "none" | "ok" | "failed"

alertVars == <<subscriber, hour, district_data, alert_state, alerts, runs, sent>>

\* Part 6: auto_bracket_root and smart_bracket of src/pilotehi350.py called on
\* their own
VARIABLES
    bpc,        \* "idle" | "auto" (auto_bracket_root returned or raised) | "smart"
    bfs,        \* the samples auto_bracket_root saw, <<>> before
    bauto,      \* what auto_bracket_root returned or raised, <<>> before
    bfrom,      \* where smart_bracket's a, b came from: "none" | "auto" | "direct"
    bin,        \* <<sign f(a), sign f(b)>> at the a, b given to smart_bracket
    bnud,       \* the signs of f at the nudged points
    bres        \* what smart_bracket returned or raised, <<>> before

bracketVars == <<bpc, bfs, bauto, bfrom, bin, bnud, bres>>

\* Part 7: the subscriber sheet and the subscribe handler of src/api/subscribe.py
VARIABLES
    sheet,      \* the data rows of the Google sheet, in order
    issued,     \* how many uuid4 tokens were generated
    readFailed, \* get_all_records raised in some request so far
    request,    \* the most recent request: the e-mail as posted, and whether districts were given
    response,   \* its HTTP status and what was done
    mail        \* the verification e-mail it sent: <<address, token>>, or <<>>

sheetVars == <<sheet, issued, readFailed, request, response, mail>>

vars == <<lookupVars, singletonVars, solveVars, indexVars, alertVars, bracketVars,
          sheetVars>>

(***************************************************************************)
(* Bounds of the model.                                                    *)
(***************************************************************************)
GridN == 2          \* grid steps per axis of a table (GridN + 1 rows and columns)
Over == 1           \* how far queries leave the grid, in quarter degrees / half percents
MaxBadFiles == 1    \* table files missing or malformed on disk
NThreads == 3       \* threads making their first call to get_lookup
MaxIterB == 3       \* largest maxIter given to the bisection solvers

(***************************************************************************)
(* Python values.                                                          *)
(***************************************************************************)
None == <<>>
Some(v) == <<v>>

Num(v) == [tag |-> "num", v |-> v]
NoneArg == [tag |-> "None", v |-> 0]
NaN == [tag |-> "NaN", v |-> 0]

\* u < w on floats: every comparison with NaN is False
PyLt(u, w) == u.tag = "num" /\ w.tag = "num" /\ u.v < w.v

\* min(u, w): w when w < u, else u.  max(u, w): w when w > u, else u.
PyMin(u, w) == IF PyLt(w, u) THEN w ELSE u
PyMax(u, w) == IF PyLt(u, w) THEN w ELSE u

\* round(n / d) for d > 0: to the nearest integer, ties to the even one
PyRound(n, d) ==
    LET fl == n \div d
        r == n % d
    IN  IF 2 * r < d THEN fl
        ELSE IF 2 * r > d THEN fl + 1
        ELSE IF fl % 2 = 0 THEN fl ELSE fl + 1

\* int(n / d) for d > 0: truncation towards zero
PyInt(n, d) == IF n >= 0 THEN n \div d ELSE -((-n) \div d)

\* f"{x:.1f}" of x = q quarter degrees: the tenths it prints (ties to even)
Fmt1(q) == PyRound(10 * q, 4)

\* What a call of get_ehi_zone did: the pair it returned, or the exception it
\* raised; via names the return statement taken ("exact": line 105, "nearest":
\* lines 118 and 124, "sentinel": line 126).
Return(e, z, via) == [kind |-> "return", ehi |-> e, zone |-> z, exc |-> "none", via |-> via]
Raise(x) == [kind |-> "raise", ehi |-> None, zone |-> 0, exc |-> x, via |-> "none"]
NoCall == [kind |-> "nocall", ehi |-> None, zone |-> 0, exc |-> "none", via |-> "none"]

(***************************************************************************)
(* Table files.                                                            *)
(***************************************************************************)
met_levels == {3, 4, 5, 6}
sun_conditions == {"shade", "sun"}

\* key = f"met{met}_{sun}"
Key(met, sun) == <<met, sun>>
Keys == {Key(m, s) : m \in met_levels, s \in sun_conditions}

(***************************************************************************)
(* What the offline builder wrote.  A grid is the metadata of the tables   *)
(* and one data gap; the builder writes the same grid for all eight keys.  *)
(*   gap = <<"none">> | <<"cell", i, j>> | <<"row", i>>                    *)
(***************************************************************************)
TempMinC == 20                 \* lowest grid temperature of the fixtures, degrees C
TempSteps == {1, 2}            \* temp_step_c: 0.25 and 0.5 degrees
RhSteps == {2, 4}              \* rh_step_pct: 1 and 2 percent

Gaps == {<<"none">>}
          \cup {<<"cell", i, j>> : i \in 0..GridN, j \in 0..GridN}
          \cup {<<"row", i>> : i \in 0..GridN}

Grids == [temp_step : TempSteps, rh_step : RhSteps, gap : Gaps]

FullGrid == [temp_step |-> 2, rh_step |-> 2, gap |-> <<"none">>]

RowTemp(g, i) == 4 * TempMinC + i * g.temp_step       \* quarter degrees
ColRh(g, j) == j * g.rh_step                          \* half percents

Metadata(g) ==
    [temp_min_c |-> RowTemp(g, 0), temp_max_c |-> RowTemp(g, GridN),
     temp_step_c |-> g.temp_step,
     rh_min_pct |-> ColRh(g, 0), rh_max_pct |-> ColRh(g, GridN),
     rh_step_pct |-> g.rh_step]

RowsOf(g) == {i \in 0..GridN : g.gap # <<"row", i>>}
ColsOf(g, i) == {j \in 0..GridN : g.gap # <<"cell", i, j>>}

\* the leaf [ehi, zone] the builder stored for a cell: ehi in tenths, zone in 1..6
Leaf(key, tk, rk) == <<Some(tk + 2 * rk + key[1]), 1 + ((tk + rk + key[1]) % 6)>>

\* the parsed JSON document of one table file
TableOf(g, key) ==
    [metadata |-> Metadata(g),
     data |-> [tk \in {Fmt1(RowTemp(g, i)) : i \in RowsOf(g)} |->
                 LET i == CHOOSE x \in RowsOf(g) : Fmt1(RowTemp(g, x)) = tk
                 IN  [rk \in {ColRh(g, j) \div 2 : j \in ColsOf(g, i)} |-> Leaf(key, tk, rk)]]]

(***************************************************************************)
(* EHILookup._find_nearest (ehi_lookup.py 110-126).                        *)
(*   temp_key = f"{round(temp_c * 2) / 2:.1f}";  rh_key = str(round(rh))   *)
(* rh_key is a str, so the first `rh_key - offset` of the humidity search  *)
(* (offset = 1, evaluated before any membership test) raises TypeError.    *)
(***************************************************************************)
\* variant: the gap is reported as (0, 0) in place of (None, 0)
sentinel_zero == Return(Some(0), 0, "sentinel")

\* the sentinel of line 126
sentinel == Return(None, 0, "sentinel")

nearest_temp_key(temp_c) == Fmt1(2 * PyRound(temp_c, 2))
nearest_rh_key(rh_percent) == PyRound(rh_percent, 2)

find_nearest(data, temp_c, rh_percent) ==
    LET temp_key == nearest_temp_key(temp_c)
        rh_key == nearest_rh_key(rh_percent)
    IN  IF temp_key \in DOMAIN data
        THEN IF rh_key \in DOMAIN data[temp_key]
             THEN Return(data[temp_key][rh_key][1], data[temp_key][rh_key][2], "nearest")
             ELSE Raise("TypeError")
        ELSE sentinel

(***************************************************************************)
(* EHILookup.get_ehi_zone (ehi_lookup.py 65-108).                          *)
(***************************************************************************)
\* variant: the temperature is clamped from below only
clamp_temp_below(metadata, temp_c) == PyMax(Num(metadata.temp_min_c), temp_c).v

\* max(metadata['temp_min_c'], min(metadata['temp_max_c'], temp_c)), line 88
clamp_temp(metadata, temp_c) ==
    PyMax(Num(metadata.temp_min_c), PyMin(Num(metadata.temp_max_c), temp_c)).v
\* max(metadata['rh_min_pct'], min(metadata['rh_max_pct'], rh_percent)), line 89
clamp_rh(metadata, rh_percent) ==
    PyMax(Num(metadata.rh_min_pct), PyMin(Num(metadata.rh_max_pct), rh_percent)).v

\* variant: the temperature is rounded to a fixed 0.5 degrees
round_temp_half(metadata, t) == PyRound(t, 2) * 2

\* temp_rounded = round(temp_c / temp_step) * temp_step, line 95 (quarter degrees)
round_temp(metadata, t) == PyRound(t, metadata.temp_step_c) * metadata.temp_step_c
\* rh_rounded = int(round(rh_percent / rh_step) * rh_step), line 96 (whole percents)
round_rh(metadata, rh) == PyInt(PyRound(rh, metadata.rh_step_pct) * metadata.rh_step_pct, 2)

get_ehi_zone(tabs, temp_c, rh_percent, met_level, sun) ==
    LET key == Key(met_level, sun)
    IN  IF key \notin DOMAIN tabs THEN Raise("ValueError")
        \* min() and max() of None and a number
        ELSE IF temp_c.tag = "None" \/ rh_percent.tag = "None" THEN Raise("TypeError")
        ELSE
        LET metadata == tabs[key].metadata
            data == tabs[key].data
            t == clamp_temp(metadata, temp_c)
            rh == clamp_rh(metadata, rh_percent)
            temp_key == Fmt1(round_temp(metadata, t))
            rh_key == round_rh(metadata, rh)
        IN  IF temp_key \in DOMAIN data /\ rh_key \in DOMAIN data[temp_key]
            THEN Return(data[temp_key][rh_key][1], data[temp_key][rh_key][2], "exact")
            ELSE find_nearest(data, t, rh)

(***************************************************************************)
(* The call sites.  Each returns what get_ehi_zone did inside it (lookup)  *)
(* and what the call site itself returned or raised (out).                 *)
(***************************************************************************)
SiteReturn(e, z) == [kind |-> "return", ehi |-> e, zone |-> z]
SiteRaise == [kind |-> "raise", ehi |-> None, zone |-> None]
NoSite == [kind |-> "nocall", ehi |-> None, zone |-> None]

\* variant: the call of the lookup is not wrapped in try/except
compute_no_except(tabs, temp_c, rh_percent, met_level, sun_condition) ==
    IF temp_c.tag = "None" \/ rh_percent.tag = "None"
    THEN [lookup |-> NoCall, out |-> SiteReturn(None, Some(0))]
    ELSE LET r == get_ehi_zone(tabs, temp_c, rh_percent, met_level, sun_condition)
         IN  IF r.kind = "raise"
             THEN [lookup |-> r, out |-> SiteRaise]
             ELSE [lookup |-> r, out |-> SiteReturn(r.ehi, Some(r.zone))]

\* compute_ehi_and_zone (generate_grid_data.py 228-238, generate_forecast.py 35-45)
compute_ehi_and_zone(tabs, temp_c, rh_percent, met_level, sun_condition) ==
    IF temp_c.tag = "None" \/ rh_percent.tag = "None"
    THEN [lookup |-> NoCall, out |-> SiteReturn(None, Some(0))]
    ELSE LET r == get_ehi_zone(tabs, temp_c, rh_percent, met_level, sun_condition)
         IN  IF r.kind = "raise"
             THEN [lookup |-> r, out |-> SiteReturn(None, Some(0))]   \* except Exception
             ELSE [lookup |-> r, out |-> SiteReturn(r.ehi, Some(r.zone))]

\* ZONE_MAP.get(zone_num, "Unknown") (recalculate_zones.py 22, 31)
ZONE_MAP(zone_num) ==
    IF zone_num \in 1..6 THEN Some(<<"Zone", zone_num>>) ELSE Some(<<"Unknown">>)

\* pd.notna(x)
notna(x) == x.tag = "num"

\* recalc_ehi_zone (recalculate_zones.py 24-36)
recalc_ehi_zone(tabs, rowTemp, rowRh, met_level, sun_condition) ==
    LET temp_c == IF notna(rowTemp) THEN rowTemp ELSE NoneArg
        rh_percent == IF notna(rowRh) THEN rowRh ELSE NoneArg
    IN  IF temp_c.tag # "None" /\ rh_percent.tag # "None"
        THEN LET r == get_ehi_zone(tabs, temp_c, rh_percent, met_level, sun_condition)
             IN  IF r.kind = "raise"
                 THEN [lookup |-> r, out |-> SiteReturn(None, None)]  \* except Exception
                 ELSE [lookup |-> r, out |-> SiteReturn(r.ehi, ZONE_MAP(r.zone))]
        ELSE [lookup |-> NoCall, out |-> SiteReturn(None, None)]

(***************************************************************************)
(* Inputs.                                                                 *)
(***************************************************************************)
\* the order of `for met in [3, 4, 5, 6]: for sun in ['shade', 'sun']`
KeyOrder == <<Key(3, "shade"), Key(3, "sun"), Key(4, "shade"), Key(4, "sun"),
              Key(5, "shade"), Key(5, "sun"), Key(6, "shade"), Key(6, "sun")>>

Statuses == {"ok", "missing", "malformed"}
BadFiles(f) == {k \in Keys : f[k] # "ok"}
AllOk == [k \in Keys |-> "ok"]
FileStates == {f \in [Keys -> Statuses] : Cardinality(BadFiles(f)) <= MaxBadFiles}

\* the temperatures and humidities a point of the batch may carry, for a grid
TempArgs(g) == {Num(t) : t \in (RowTemp(g, 0) - Over)..(RowTemp(g, GridN) + Over)}
                 \cup {NoneArg, NaN}
RhArgs(g) == {Num(h) : h \in (ColRh(g, 0) - Over)..(ColRh(g, GridN) + Over)}
               \cup {NoneArg, NaN}

NoQuery == [temp |-> NoneArg, rh |-> NoneArg, pos |-> 0]
Query(t, h, pos) == [temp |-> t, rh |-> h, pos |-> pos]

\* the key of position pos of the loops: 1..8 are KeyOrder, 9 is the legacy
\* column of recalculate_file (6, 'shade')
KeyAt(pos) == IF pos = 9 THEN Key(6, "shade") ELSE KeyOrder[pos]
LastPos(s) == IF s = "recalc" THEN 9 ELSE 8

(***************************************************************************)
(* Initial states: the directory, the files in it, the caller that runs.   *)
(***************************************************************************)
InitLookup ==
    /\ dirFound \in BOOLEAN
    /\ files \in FileStates
    /\ grid \in Grids
    /\ ~dirFound => files = AllOk /\ grid = FullGrid
    /\ files # AllOk => grid = FullGrid
    /\ tables = <<>>
    /\ phase = "new"
    /\ ctorError = "none"
    /\ script \in {"grid", "recalc"}
    /\ batch = "idle"
    /\ lastQuery = NoQuery
    /\ lastResult = NoCall
    /\ siteResult = NoSite
    /\ out = <<>>

(***************************************************************************)
(* EHILookup.__init__ and _load_tables (ehi_lookup.py 20-63), run by       *)
(* `lookup = EHILookup()` at the import of either script.                  *)
(***************************************************************************)
\* the position of the first file json.load() fails on, 0 when none
FirstMalformed(f) ==
    IF \E p \in 1..8 : f[KeyOrder[p]] = "malformed"
    THEN CHOOSE p \in 1..8 : /\ f[KeyOrder[p]] = "malformed"
                             /\ \A q \in 1..(p - 1) : f[KeyOrder[q]] # "malformed"
    ELSE 0

\* self.tables after _load_tables ran over the files f up to position upto
LoadedTables(f, g, upto) ==
    [k \in {KeyOrder[p] : p \in {x \in 1..upto : f[KeyOrder[x]] = "ok"}} |-> TableOf(g, k)]

\* the outcome of the constructor: the exception it raises ("none": it returns)
\* and self.tables as it leaves them
load_tables(found, f, g) ==
    IF ~found THEN [exc |-> "FileNotFoundError", tables |-> <<>>]
    ELSE IF FirstMalformed(f) # 0
         THEN [exc |-> "JSONDecodeError", tables |-> LoadedTables(f, g, FirstMalformed(f) - 1)]
         ELSE [exc |-> "none", tables |-> LoadedTables(f, g, 8)]

Construct ==
    /\ phase = "new"
    /\ LET c == load_tables(dirFound, files, grid)
       IN  /\ tables' = c.tables
           /\ ctorError' = c.exc
           /\ phase' = IF c.exc = "none" THEN "ready" ELSE "failed"
    /\ UNCHANGED <<dirFound, files, grid, script, batch, lastQuery, lastResult, siteResult, out>>
    /\ UNCHANGED <<singletonVars, solveVars, indexVars, alertVars, bracketVars, sheetVars>>

(***************************************************************************)
(* The batch loops.                                                        *)
(*   generate_grid_data.py 282-310: for each point, for met, for sun:      *)
(*       compute_ehi_and_zone(weather['temp'], weather['rh'], met, sun)    *)
(*     and the result is stored in point_data['data'].                     *)
(*   recalculate_zones.py 53-66, 105-108: for each CSV file, for met, for  *)
(*     sun (then once more for the legacy column, key (6, 'shade')), for   *)
(*     each row: recalc_ehi_zone(row, met, sun); the result is stored in   *)
(*     the row's columns.  The model gives every CSV file one row.         *)
(* In both, `out` holds what the loop stored for the current point so far. *)
(***************************************************************************)
CallSite(s, tabs, t, h, pos) ==
    IF s = "grid"
    THEN compute_ehi_and_zone(tabs, t, h, KeyAt(pos)[1], KeyAt(pos)[2])
    ELSE recalc_ehi_zone(tabs, t, h, KeyAt(pos)[1], KeyAt(pos)[2])

\* variant: a miss of the exact key leaves an empty row behind in the table
\* (data.setdefault(temp_key, {}) in place of the membership test)
touch_row(tabs, t, h, pos) ==
    IF KeyAt(pos) \in DOMAIN tabs /\ t.tag # "None" /\ h.tag # "None"
    THEN LET md == tabs[KeyAt(pos)].metadata
             tk == Fmt1(round_temp(md, clamp_temp(md, t)))
             data == tabs[KeyAt(pos)].data
         IN  IF tk \in DOMAIN data THEN tabs
             ELSE [tabs EXCEPT ![KeyAt(pos)].data =
                     [k \in DOMAIN data \cup {tk} |-> IF k = tk THEN <<>> ELSE data[k]]]
    ELSE tabs

StepTouching(t, h, pos) ==
    \E c \in {CallSite(script, tables, t, h, pos)} :
        /\ lastQuery' = Query(t, h, pos)
        /\ lastResult' = c.lookup
        /\ siteResult' = c.out
        /\ batch' = IF c.out.kind = "raise" THEN "aborted" ELSE "running"
        /\ out' = IF c.out.kind = "raise" THEN out
                  ELSE IF pos = 1 THEN <<c>> ELSE Append(out, c)
        /\ tables' = touch_row(tables, t, h, pos)
        /\ UNCHANGED <<dirFound, files, grid, phase, ctorError, script>>
        /\ UNCHANGED <<singletonVars, solveVars, indexVars, alertVars, bracketVars, sheetVars>>

\* one call of the call site from the loop, with what the loop does with it
Step(t, h, pos) ==
    \E c \in {CallSite(script, tables, t, h, pos)} :
        /\ lastQuery' = Query(t, h, pos)
        /\ lastResult' = c.lookup
        /\ siteResult' = c.out
        /\ batch' = IF c.out.kind = "raise" THEN "aborted" ELSE "running"
        /\ out' = IF c.out.kind = "raise" THEN out
                  ELSE IF pos = 1 THEN <<c>> ELSE Append(out, c)
        /\ UNCHANGED <<dirFound, files, grid, tables, phase, ctorError, script>>
        /\ UNCHANGED <<singletonVars, solveVars, indexVars, alertVars, bracketVars, sheetVars>>

\* the first key of a point: the point is any weather record (any CSV row)
FirstCall ==
    /\ phase = "ready" /\ batch = "idle"
    /\ \E t \in TempArgs(grid), h \in RhArgs(grid) : Step(t, h, 1)

\* the same point (row) under the next key
NextKey ==
    /\ phase = "ready" /\ batch = "running"
    /\ lastQuery.pos < LastPos(script)
    /\ Step(lastQuery.temp, lastQuery.rh, lastQuery.pos + 1)

\* the last key of the point is done: the loop stores the point
\* (output['points'].append(point_data); the columns of the row) and moves
\* on; the next point, if any, starts at FirstCall with a fresh point_data
EndPoint ==
    /\ phase = "ready" /\ batch = "running"
    /\ lastQuery.pos = LastPos(script)
    /\ batch' = "idle"
    /\ out' = <<>>
    /\ lastQuery' = NoQuery /\ lastResult' = NoCall /\ siteResult' = NoSite
    /\ UNCHANGED <<dirFound, files, grid, tables, phase, ctorError, script>>
    /\ UNCHANGED <<singletonVars, solveVars, indexVars, alertVars, bracketVars, sheetVars>>

(***************************************************************************)
(* get_lookup / lookup_ehi_zone (ehi_lookup.py 129-152) called by several  *)
(* threads.  A thread switch can fall between any two of: the test         *)
(* `_lookup_instance is None`, the call EHILookup() (which reads the files *)
(* and releases the interpreter lock doing so), the store to the global,   *)
(* and the load of the global by `return _lookup_instance`.                *)
(***************************************************************************)
Threads == 1..NThreads

InitSingleton ==
    /\ lookup_instance = 0
    /\ tpc = [t \in Threads |-> "start"]
    /\ made = [t \in Threads |-> 0]
    /\ got = [t \in Threads |-> 0]
    /\ nConstructed = 0

\* if _lookup_instance is None:
TestNone(t) ==
    /\ tpc[t] = "start"
    /\ tpc' = [tpc EXCEPT ![t] = IF lookup_instance = 0 THEN "construct" ELSE "return"]
    /\ UNCHANGED <<lookup_instance, made, got, nConstructed>>
    /\ UNCHANGED <<lookupVars, solveVars, indexVars, alertVars, bracketVars, sheetVars>>

\* EHILookup()
BuildInstance(t) ==
    /\ tpc[t] = "construct"
    /\ nConstructed' = nConstructed + 1
    /\ made' = [made EXCEPT ![t] = nConstructed + 1]
    /\ tpc' = [tpc EXCEPT ![t] = "assign"]
    /\ UNCHANGED <<lookup_instance, got>>
    /\ UNCHANGED <<lookupVars, solveVars, indexVars, alertVars, bracketVars, sheetVars>>

\* _lookup_instance = <the object built>
StoreInstance(t) ==
    /\ tpc[t] = "assign"
    /\ lookup_instance' = made[t]
    /\ tpc' = [tpc EXCEPT ![t] = "return"]
    /\ UNCHANGED <<made, got, nConstructed>>
    /\ UNCHANGED <<lookupVars, solveVars, indexVars, alertVars, bracketVars, sheetVars>>

\* return _lookup_instance
ReturnInstance(t) ==
    /\ tpc[t] = "return"
    /\ got' = [got EXCEPT ![t] = lookup_instance]
    /\ tpc' = [tpc EXCEPT ![t] = "done"]
    /\ UNCHANGED <<lookup_instance, made, nConstructed>>
    /\ UNCHANGED <<lookupVars, solveVars, indexVars, alertVars, bracketVars, sheetVars>>

(***************************************************************************)
(* Plain bisection (pilotehi350.py): solve, 360-384, and solve_bisection,  *)
(* 181-195.  Points are integers on a scale fine enough that every         *)
(* midpoint taken within MaxIterB iterations is exact; the function f is   *)
(* any function: each value it returns is chosen when it is first          *)
(* evaluated at a point, and only its sign matters to the code             *)
(* (fa * fb > 0, np.sign(fc) == np.sign(fa)).                              *)
(***************************************************************************)
Scale == 2 ^ MaxIterB
Points == {0, Scale, 2 * Scale}
Tols == {1, 2, Scale, 2 * Scale + 1}
Signs == {-1, 0, 1}
Abs(n) == IF n < 0 THEN -n ELSE n

\* the values f may return at point p, given the evaluations made so far
ValuesAt(ev, p) ==
    IF \E k \in 1..Len(ev) : ev[k][1] = p
    THEN {ev[k][2] : k \in {j \in 1..Len(ev) : ev[j][1] = p}}
    ELSE Signs

InitSolve ==
    /\ solver \in {"solve", "solve_bisection"}
    /\ tol \in Tols
    /\ maxIter \in 0..MaxIterB
    /\ x1 \in Points /\ x2 \in Points
    /\ a = 0 /\ b = 0 /\ fa = 0 /\ fb = 0
    /\ iter = 0
    /\ spc = "start"
    /\ sresult = None
    /\ serror = "none"
    /\ evals = <<>>

\* variant: only two positive endpoint values are refused
wrong_interval_positive(va, vb) == va > 0 /\ vb > 0

\* the test of the initial interval: `if fa * fb > 0` (184, 367)
wrong_interval(va, vb) == va * vb > 0

\* a = x1; b = x2; fa = f(a); fb = f(b); the test of the interval; and, when
\* range(maxIter) is empty, the end of the function
Enter ==
    /\ spc = "start"
    /\ \E va \in Signs, vb \in Signs :
         /\ x1 = x2 => va = vb
         /\ a' = x1 /\ b' = x2 /\ fa' = va /\ fb' = vb
         /\ evals' = <<<<x1, va>>, <<x2, vb>>>>
         /\ IF wrong_interval(va, vb)
            THEN spc' = "raised" /\ serror' = "InvalidBracket"
            ELSE IF maxIter = 0
                 THEN IF solver = "solve"
                      THEN spc' = "returned" /\ serror' = "none"    \* falls off the end: None
                      ELSE spc' = "raised" /\ serror' = "MaxIterations"
                 ELSE spc' = "loop" /\ serror' = "none"
    /\ UNCHANGED <<solver, tol, maxIter, x1, x2, iter, sresult>>
    /\ UNCHANGED <<lookupVars, singletonVars, indexVars, alertVars, bracketVars, sheetVars>>

\* which endpoint the midpoint replaces: TRUE when it replaces a
\*   solve:            if fb * fc > 0: b = c  else: a = c
\*   solve_bisection:  if np.sign(fc) == np.sign(fa): a = c  else: b = c
replaces_a(sv, va, vb, vc) ==
    IF sv = "solve" THEN ~(vb * vc > 0) ELSE vc = va

\* one iteration of the for loop
Iterate ==
    /\ spc = "loop"
    /\ LET c == (a + b) \div 2
       IN  \E vc \in ValuesAt(evals, c) :
             LET ra == replaces_a(solver, fa, fb, vc)
                 na == IF ra THEN c ELSE a
                 nb == IF ra THEN b ELSE c
             IN  /\ evals' = Append(evals, <<c, vc>>)
                 /\ a' = na /\ b' = nb
                 /\ fa' = (IF ra THEN vc ELSE fa)
                 /\ fb' = (IF ra THEN fb ELSE vc)
                 /\ IF Abs(na - nb) < tol
                    THEN spc' = "returned" /\ sresult' = Some(c) /\ serror' = "none"
                                           /\ iter' = iter
                    ELSE IF iter = maxIter - 1
                         THEN spc' = "raised" /\ serror' = "MaxIterations"
                                              /\ sresult' = None /\ iter' = iter
                         ELSE spc' = "loop" /\ serror' = "none"
                                            /\ sresult' = None /\ iter' = iter + 1
    /\ UNCHANGED <<solver, tol, maxIter, x1, x2>>
    /\ UNCHANGED <<lookupVars, singletonVars, indexVars, alertVars, bracketVars, sheetVars>>

(***************************************************************************)
(* The heat index (pilotehi350.py).  Real quantities are kept by what the  *)
(* code tests of them: a flux by its sign, Rs in units of 1e-4 m^2K/W, phi *)
(* in hundredths, dTcdt = flux3 / C by the sign of flux3 (C > 0).  A       *)
(* nested root-find is a call of solve with the module's tol and           *)
(* maxIter = 300; what it returns or raises is an input of the step.       *)
(***************************************************************************)
NSamples == 3       \* sample points of auto_bracket_root (N)

Rs_init == 387      \* Rs = 0.0387
phi_init == 84      \* phi = 0.84
Rs_min == 40        \* 0.004
max_nudges == 3     \* smart_bracket(..., max_nudges=3, ...)

Inf == [tag |-> "inf", v |-> 0]           \* float('inf')
SolvedT == Num(1)                         \* a temperature found by a root-find (not 0)
NoError == "NoError"

\* solve raises SystemExit, which is no subclass of Exception
IsSystemExit(e) == e \in {"InvalidBracket", "MaxIterations", "SystemExit"}
\* RuntimeError and ValueError are
IsException(e) == e \in {"NoRoot", "NudgeFailed", "EndpointsSameSign", "MinimizeFailed"}

\* what a call solve(f, x1, x2, tol, maxIter) with maxIter = 300 can do
SolveOutcomes == {"value", "InvalidBracket", "MaxIterations"}

PhiSolved == {84, 95}        \* values of line 120 (flux1 <= 0 makes it >= 0.84)
RfSolved == {0, 3}           \* values of line 127
RsSolved == {20, 40, 100}    \* values of lines 134 and 139

\* variant: no clothing is reported as a clothing resistance of 0
EqVars_finite_Rf(name, phi_, Rf_, Rs_, dTcdt_) ==
    [name |-> name, phi |-> phi_, Rf |-> IF Rf_ = Inf THEN Num(0) ELSE Rf_,
     Rs |-> Rs_, dTcdt |-> dTcdt_]

EqVars(name, phi_, Rf_, Rs_, dTcdt_) ==
    [name |-> name, phi |-> phi_, Rf |-> Rf_, Rs |-> Rs_, dTcdt |-> dTcdt_]

InitIndex ==
    /\ Ta0 \in BOOLEAN
    /\ mpc = "find_eqvar" /\ epc = "Ts"
    /\ flux = <<>> /\ psTest = "na" /\ rsSolved = <<>> /\ failed = <<>>
    /\ eqvars = None
    /\ chain = "none" /\ cpc = "idle" /\ ctrace = <<>> /\ fsamp = <<>> /\ bracket = <<>>
    /\ Tres = NoneArg /\ region = "none"
    /\ mresult = NoneArg /\ merror = NoError
    /\ fed = "none"

\* variant: a failed nested root-find is swallowed and the function goes on
after_solve_swallowed(oc, nextpc) == nextpc

\* find_eqvar has no try: the SystemExit of a nested solve leaves it
after_solve(oc, nextpc) == IF oc = "value" THEN nextpc ELSE "raised"

\* a nested solve of find_eqvar that is followed by further statements
NestedSolve(here, nextpc) ==
    /\ mpc = "find_eqvar" /\ epc = here
    /\ \E oc \in SolveOutcomes :
         /\ epc' = after_solve(oc, nextpc)
         /\ failed' = IF oc = "value" THEN failed ELSE Append(failed, oc)
         /\ mpc' = IF epc' = "raised" THEN "raised" ELSE mpc
         /\ merror' = IF epc' = "raised" THEN oc ELSE merror
    /\ UNCHANGED <<Ta0, flux, psTest, rsSolved, eqvars, chain, cpc, ctrace, fsamp,
                   bracket, Tres, region, mresult, fed>>
    /\ UNCHANGED <<lookupVars, singletonVars, solveVars, alertVars, bracketVars, sheetVars>>

\* Ts = solve(...), lines 107-108
SolveTs == NestedSolve("Ts", "Tf")

\* Tf = solve(...), lines 111-112
SolveTf == NestedSolve("Tf", "flux")

\* find_eqvar returns its list to modifiedheatindex
ReturnEqvars(ev) ==
    /\ eqvars' = Some(ev)
    /\ epc' = "done"
    /\ mpc' = "find_T"

\* variant: the clothed test is made before the covering test
first_branch_flux2_first(f1, f2) ==
    IF f2 <= 0 THEN "Rf" ELSE IF f1 <= 0 THEN "phi" ELSE "naked"

\* if flux1 <= 0.: ... elif flux2 <= 0.: ... else: ...   (118, 122, 128)
first_branch(f1, f2) ==
    IF f1 <= 0 THEN "phi" ELSE IF f2 <= 0 THEN "Rf" ELSE "naked"

\* if (flux3 < 0.): ... else: ...   (132, 145)
naked_branch(f3) == IF f3 < 0 THEN "sweat" ELSE "VI"

\* lines 115-132 and 145-150: the fluxes and the tests on them
Classify ==
    /\ mpc = "find_eqvar" /\ epc = "flux"
    /\ \E f1 \in Signs, f2 \in Signs :
         \E br \in {first_branch(f1, f2)} :
           \/ /\ br = "phi"
              /\ flux' = <<f1, f2>>
              /\ \E ph \in PhiSolved : ReturnEqvars(EqVars("phi", ph, Inf, Rs_init, 0))
           \/ /\ br = "Rf"
              /\ flux' = <<f1, f2>>
              /\ epc' = "Rf" /\ UNCHANGED <<eqvars, mpc>>
           \/ /\ br = "naked"
              /\ \E f3 \in Signs :
                   /\ flux' = <<f1, f2, f3>>
                   /\ IF naked_branch(f3) = "sweat"
                      THEN epc' = "RsIV" /\ UNCHANGED <<eqvars, mpc>>
                      ELSE ReturnEqvars(EqVars("dTcdt", phi_init, Num(0), Rs_min, f3))
    /\ UNCHANGED <<Ta0, psTest, rsSolved, failed, chain, cpc, ctrace, fsamp,
                   bracket, Tres, region, mresult, merror, fed>>
    /\ UNCHANGED <<lookupVars, singletonVars, solveVars, alertVars, bracketVars, sheetVars>>

\* a nested solve of find_eqvar that failed: SystemExit leaves find_eqvar
\* and modifiedheatindex
SolveRaised(oc) ==
    /\ epc' = "raised" /\ mpc' = "raised" /\ merror' = oc
    /\ UNCHANGED <<eqvars, psTest, rsSolved>>

\* lines 123-127: Region II and III
SolveRf ==
    /\ mpc = "find_eqvar" /\ epc = "Rf"
    /\ \E oc \in SolveOutcomes :
         /\ failed' = IF oc = "value" THEN failed ELSE Append(failed, oc)
         /\ IF after_solve(oc, "go") = "raised"
            THEN SolveRaised(oc)
            ELSE /\ merror' = merror
                 /\ \E rf \in RfSolved :
                      ReturnEqvars(EqVars("Rf", phi_init, Num(rf), Rs_init, 0))
                 /\ UNCHANGED <<psTest, rsSolved>>
    /\ UNCHANGED <<Ta0, flux, chain, cpc, ctrace, fsamp, bracket, Tres, region,
                   mresult, fed>>
    /\ UNCHANGED <<lookupVars, singletonVars, solveVars, alertVars, bracketVars, sheetVars>>

\* lines 133-137: Region IV, and the test that leads to Region V
SolveRsIV ==
    /\ mpc = "find_eqvar" /\ epc = "RsIV"
    /\ \E oc \in SolveOutcomes :
         /\ failed' = IF oc = "value" THEN failed ELSE Append(failed, oc)
         /\ IF after_solve(oc, "go") = "raised"
            THEN SolveRaised(oc)
            ELSE /\ merror' = merror
                 /\ \E rs \in RsSolved, ps \in {"above", "below"} :
                      /\ rsSolved' = Append(rsSolved, rs)
                      /\ psTest' = ps
                      /\ IF ps = "above"
                         THEN epc' = "RsV" /\ UNCHANGED <<eqvars, mpc>>
                         ELSE ReturnEqvars(EqVars("Rs", phi_init, Num(0), rs, 0))
    /\ UNCHANGED <<Ta0, flux, chain, cpc, ctrace, fsamp, bracket, Tres, region,
                   mresult, fed>>
    /\ UNCHANGED <<lookupVars, singletonVars, solveVars, alertVars, bracketVars, sheetVars>>

\* lines 138-144: Region V, and the promotion to Region VI
SolveRsV ==
    /\ mpc = "find_eqvar" /\ epc = "RsV"
    /\ \E oc \in SolveOutcomes :
         /\ failed' = IF oc = "value" THEN failed ELSE Append(failed, oc)
         /\ IF after_solve(oc, "go") = "raised"
            THEN SolveRaised(oc)
            ELSE /\ merror' = merror
                 /\ \E rs \in RsSolved :
                      /\ rsSolved' = Append(rsSolved, rs)
                      /\ psTest' = psTest
                      /\ IF rs < Rs_min
                         THEN ReturnEqvars(EqVars("dTcdt", phi_init, Num(0), Rs_min, flux[3]))
                         ELSE ReturnEqvars(EqVars("Rs*", phi_init, Num(0), rs, 0))
    /\ UNCHANGED <<Ta0, flux, chain, cpc, ctrace, fsamp, bracket, Tres, region,
                   mresult, fed>>
    /\ UNCHANGED <<lookupVars, singletonVars, solveVars, alertVars, bracketVars, sheetVars>>

(***************************************************************************)
(* find_T and the fallback chain: auto_bracket_root, smart_bracket,        *)
(* bisection, solve_advanced.  The function f handed to them evaluates     *)
(* find_eqvar, so an evaluation of f can itself raise the SystemExit of a  *)
(* nested solve.                                                           *)
(***************************************************************************)
\* the chain find_T runs for an equilibrium variable name (236, 241, 246, 253)
chain_of(name) ==
    IF name \in {"phi", "Rf"} THEN "plain"
    ELSE IF name \in {"Rs", "Rs*"} THEN "safe_solve"
    ELSE "find_T_VI"

\* region = ... (239, 244, 251, 269); II or III by a comparison at the solved T
regions_of(name) ==
    IF name = "phi" THEN {"I"}
    ELSE IF name = "Rf" THEN {"II", "III"}
    ELSE IF name = "Rs" THEN {"IV"}
    ELSE IF name = "Rs*" THEN {"V"}
    ELSE {"VI"}

EqName == eqvars[1].name

\* an exception leaves find_T and, with it, modifiedheatindex
Propagate(e) ==
    /\ mpc' = "raised" /\ merror' = e
    /\ UNCHANGED <<Tres, region>>

\* find_T returns (T, region)
ReturnT(t) ==
    /\ Tres' = t
    /\ \E rg \in regions_of(EqName) : region' = rg
    /\ mpc' = "fixup" /\ merror' = merror

\* lines 236-245: phi and Rf are inverted by one call of solve
InvertPlain ==
    /\ mpc = "find_T" /\ cpc = "idle" /\ chain_of(EqName) = "plain"
    /\ \E oc \in SolveOutcomes :
         /\ ctrace' = <<<<"solve", oc>>>>
         /\ IF oc = "value" THEN ReturnT(SolvedT) ELSE Propagate(oc)
    /\ chain' = "plain" /\ cpc' = "done"
    /\ UNCHANGED <<Ta0, epc, flux, psTest, rsSolved, failed, eqvars, fsamp, bracket,
                   mresult, fed>>
    /\ UNCHANGED <<lookupVars, singletonVars, solveVars, alertVars, bracketVars, sheetVars>>

\* the samples auto_bracket_root may see: the signs of f at the N points, and
\* the first point at which evaluating f raises (0: none does)
Samplings == [sign : [1..NSamples -> Signs], exit : 0..NSamples]

\* variant: a pair counts only when the product of its values is negative
auto_bracket_root_product(fs) ==
    IF fs.exit # 0 THEN [kind |-> "raise", exc |-> "SystemExit", lo |-> 0, hi |-> 0]
    ELSE LET hits == {i \in 1..(NSamples - 1) : fs.sign[i] * fs.sign[i + 1] < 0}
         IN  IF hits = {}
             THEN [kind |-> "raise", exc |-> "NoRoot", lo |-> 0, hi |-> 0]
             ELSE LET i == CHOOSE x \in hits : \A y \in hits : x <= y
                  IN  [kind |-> "ok", exc |-> NoError, lo |-> i, hi |-> i + 1]

\* auto_bracket_root, lines 158-164: every sample is evaluated first, then
\* the first adjacent pair whose signs differ is returned
auto_bracket_root(fs) ==
    IF fs.exit # 0 THEN [kind |-> "raise", exc |-> "SystemExit", lo |-> 0, hi |-> 0]
    ELSE LET hits == {i \in 1..(NSamples - 1) : fs.sign[i] # fs.sign[i + 1]}
         IN  IF hits = {}
             THEN [kind |-> "raise", exc |-> "NoRoot", lo |-> 0, hi |-> 0]
             ELSE LET i == CHOOSE x \in hits : \A y \in hits : x <= y
                  IN  [kind |-> "ok", exc |-> NoError, lo |-> i, hi |-> i + 1]

\* the signs f may take at the nudged points of smart_bracket, one pair
\* <<sign f(a_new), sign f(b_new)>> per round
NudgeSigns == [1..max_nudges -> Signs \X Signs]

\* smart_bracket as defined last (lines 330-357): sa, sb the signs of f(a),
\* f(b); k rounds done, ca and cb the signs at the current a and b.  The
\* result counts the nudges applied to each end.
RECURSIVE nudge_rounds(_, _, _, _)
nudge_rounds(nud, k, ca, cb) ==
    IF k > max_nudges THEN [kind |-> "raise", exc |-> "NudgeFailed", up |-> 0, down |-> 0]
    ELSE IF nud[k][1] # cb THEN [kind |-> "ok", exc |-> NoError, up |-> k, down |-> k - 1]
    ELSE IF ca # nud[k][2] THEN [kind |-> "ok", exc |-> NoError, up |-> k - 1, down |-> k]
    ELSE nudge_rounds(nud, k + 1, nud[k][1], nud[k][2])

\* variant: a round that finds the sign change at the nudged a returns both
\* nudged points
RECURSIVE nudge_rounds_both(_, _, _, _)
nudge_rounds_both(nud, k, ca, cb) ==
    IF k > max_nudges THEN [kind |-> "raise", exc |-> "NudgeFailed", up |-> 0, down |-> 0]
    ELSE IF nud[k][1] # cb THEN [kind |-> "ok", exc |-> NoError, up |-> k, down |-> k]
    ELSE IF ca # nud[k][2] THEN [kind |-> "ok", exc |-> NoError, up |-> k - 1, down |-> k]
    ELSE nudge_rounds_both(nud, k + 1, nud[k][1], nud[k][2])

smart_bracket_both_nudged(sa, sb, nud) ==
    IF sa # sb THEN [kind |-> "ok", exc |-> NoError, up |-> 0, down |-> 0]
    ELSE nudge_rounds_both(nud, 1, sa, sb)

smart_bracket(sa, sb, nud) ==
    IF sa # sb THEN [kind |-> "ok", exc |-> NoError, up |-> 0, down |-> 0]
    ELSE nudge_rounds(nud, 1, sa, sb)

\* which errors of steps 1-3 the chain's handler catches:
\*   safe_solve:  except Exception       (209)
\*   find_T:      except SystemExit      (267)
caught(ch, e) ==
    IF ch = "safe_solve" THEN IsException(e) ELSE IsSystemExit(e)

\* variant: the minimizer runs after bisection whether or not it succeeded
after_step_minimize_always(step) ==
    IF step = "auto" THEN "smart" ELSE IF step = "smart" THEN "bisect" ELSE "advanced"

\* the next step of the chain after a step that raised nothing (206-208, 264-266)
after_step(step) ==
    IF step = "auto" THEN "smart" ELSE IF step = "smart" THEN "bisect" ELSE "done"

\* a step of the try block raised e: the handler runs the minimizer, or the
\* error leaves find_T
StepRaised(ch, e) ==
    IF caught(ch, e)
    THEN cpc' = "advanced" /\ UNCHANGED <<Tres, region, mpc, merror>>
    ELSE cpc' = "done" /\ Propagate(e)

\* a, b = auto_bracket_root(f, ...)   (206, 264)
AutoBracket ==
    /\ mpc = "find_T" /\ cpc = "idle" /\ chain_of(EqName) # "plain"
    /\ chain' = chain_of(EqName)
    /\ \E fs \in Samplings :
         \E r \in {auto_bracket_root(fs)} :
           /\ fsamp' = fs
           /\ ctrace' = <<<<"auto", IF r.kind = "ok" THEN "ok" ELSE r.exc>>>>
           /\ IF r.kind = "ok"
              THEN /\ bracket' = <<r.lo, r.hi, 0, 0>>
                   /\ cpc' = after_step("auto")
                   /\ UNCHANGED <<Tres, region, mpc, merror>>
              ELSE /\ bracket' = <<>>
                   /\ StepRaised(chain_of(EqName), r.exc)
    /\ UNCHANGED <<Ta0, epc, flux, psTest, rsSolved, failed, eqvars, mresult, fed>>
    /\ UNCHANGED <<lookupVars, singletonVars, solveVars, alertVars, bracketVars, sheetVars>>

\* a, b = smart_bracket(f, a, b)   (207, 265)
SmartBracket ==
    /\ mpc = "find_T" /\ cpc = "smart"
    /\ LET sa == fsamp.sign[bracket[1]]
           sb == fsamp.sign[bracket[2]]
       IN  \E nud \in (IF sa # sb THEN {<<>>} ELSE NudgeSigns) :
             \E r \in {smart_bracket(sa, sb, nud)} :
               /\ ctrace' = Append(ctrace, <<"smart", IF r.kind = "ok" THEN "ok" ELSE r.exc>>)
               /\ IF r.kind = "ok"
                  THEN /\ bracket' = <<bracket[1], bracket[2], r.up, r.down>>
                       /\ cpc' = after_step("smart")
                       /\ UNCHANGED <<Tres, region, mpc, merror>>
                  ELSE /\ bracket' = bracket
                       /\ StepRaised(chain, r.exc)
    /\ UNCHANGED <<Ta0, epc, flux, psTest, rsSolved, failed, eqvars, chain, fsamp,
                   mresult, fed>>
    /\ UNCHANGED <<lookupVars, singletonVars, solveVars, alertVars, bracketVars, sheetVars>>

\* what bisection on the bracket can do: the interval test on the signs at
\* its ends; then, an interval of one sample step being halved below tol
\* long before maxIter (1000, resp. 300) iterations, a value, unless an
\* evaluation of f at a midpoint raises
bisect_outcomes(ch, sa, sb) ==
    IF wrong_interval(sa, sb)
    THEN {IF ch = "safe_solve" THEN "EndpointsSameSign" ELSE "InvalidBracket"}
    ELSE {"value", "SystemExit"}

\* return solve_bisection(f, a, b, tol, maxIter)   (208)
\* T = solve(f, a, b, tolT, maxIter)               (266)
Bisect ==
    /\ mpc = "find_T" /\ cpc = "bisect"
    /\ \E oc \in bisect_outcomes(chain, fsamp.sign[bracket[1]], fsamp.sign[bracket[2]]) :
         /\ ctrace' = Append(ctrace, <<"bisect", oc>>)
         /\ IF oc = "value"
            THEN /\ cpc' = after_step("bisect")
                 /\ IF cpc' = "done"
                    THEN ReturnT(SolvedT)
                    ELSE UNCHANGED <<Tres, region, mpc, merror>>
            ELSE StepRaised(chain, oc)
    /\ UNCHANGED <<Ta0, epc, flux, psTest, rsSolved, failed, eqvars, chain, fsamp,
                   bracket, mresult, fed>>
    /\ UNCHANGED <<lookupVars, singletonVars, solveVars, alertVars, bracketVars, sheetVars>>

\* solve_advanced, lines 197-202: the minimizer's point is returned when
\* result.success and |f(x)| < 1e-3; else RuntimeError; f can raise inside
AdvancedOutcomes == {"value", "MinimizeFailed", "SystemExit"}

\* return solve_advanced(...) inside safe_solve's handler, with its own
\* `except Exception: return np.nan` (211-215); T = solve_advanced(...) in
\* find_T's handler (268), where nothing catches
Minimize ==
    /\ mpc = "find_T" /\ cpc = "advanced"
    /\ \E oc \in AdvancedOutcomes :
         /\ ctrace' = Append(ctrace, <<"advanced", oc>>)
         /\ IF oc = "value" THEN ReturnT(SolvedT)
            ELSE IF chain = "safe_solve" /\ IsException(oc) THEN ReturnT(NaN)
            ELSE Propagate(oc)
    /\ cpc' = "done"
    /\ UNCHANGED <<Ta0, epc, flux, psTest, rsSolved, failed, eqvars, chain, fsamp,
                   bracket, mresult, fed>>
    /\ UNCHANGED <<lookupVars, singletonVars, solveVars, alertVars, bracketVars, sheetVars>>

\* modifiedheatindex, lines 281 and 312: if Ta == 0.: T = 0.; return T
Finish ==
    /\ mpc = "fixup"
    /\ mresult' = IF Ta0 THEN Num(0) ELSE Tres
    /\ mpc' = "returned"
    /\ UNCHANGED <<Ta0, epc, flux, psTest, rsSolved, failed, eqvars, chain, cpc, ctrace,
                   fsamp, bracket, Tres, region, merror, fed>>
    /\ UNCHANGED <<lookupVars, singletonVars, solveVars, alertVars, bracketVars, sheetVars>>

\* find_eqvar on the T of find_T under the reference scenario, compared
\* with the value that was inverted.
\*   T = NaN: every comparison of solve is False, so a = c = NaN in each
\*     iteration, abs(a - b) < tol never holds and the first nested solve
\*     raises at its last iteration.
\*   T from solve_advanced: accepted on an absolute residual below 1e-3.
\*   T from bisection on a negative dTcdt (Region VI by promotion): dTcdt is
\*     0. up to the promotion and flux3 / C < 0 from it on, and bisection
\*     closes in on the first sign change of f, that jump.
\*   Else the root-find closed in on a root of f.
forward_on(t, step, ev) ==
    IF t = NaN THEN {"raised"}
    ELSE IF step = "advanced" THEN {"within", "beyond"}
    ELSE IF ev.name = "dTcdt" /\ ev.dTcdt < 0 THEN {"within", "beyond"}
    ELSE {"within"}

FeedBack ==
    /\ mpc = "returned" /\ fed = "none"
    /\ \E r \in forward_on(Tres, ctrace[Len(ctrace)][1], eqvars[1]) : fed' = r
    /\ UNCHANGED <<Ta0, mpc, epc, flux, psTest, rsSolved, failed, eqvars, chain, cpc,
                   ctrace, fsamp, bracket, Tres, region, mresult, merror>>
    /\ UNCHANGED <<lookupVars, singletonVars, solveVars, alertVars, bracketVars, sheetVars>>

(***************************************************************************)
(* The alert run (scripts/send_alerts.py).  The sheet holds one verified   *)
(* subscriber; main treats each subscriber on its own, under its own       *)
(* e-mail key of the alert state.  A zone is None or Some(n).              *)
(***************************************************************************)
NDistricts == 1     \* districts of the grid data

Districts == 1..NDistricts
Mets == {6}                                   \* the subscriber's met_levels (default [6])
Conds == {"shade", "sun"}
Hours == {5, 6, 17, 18}                       \* now_ist.hour, around both ends of the night
ZoneVals == {None, Some(0), Some(5), Some(6)} \* point['data'][met][condition]['zone']
AlertZoneSets == {{6}, {5, 6}, {5}, {0, 6}}   \* alert_zones as parsed (161-169)

Subscribers == [districts : {Districts}, met_levels : {Mets},
                alert_zones : AlertZoneSets, sun_shade : {"sun", "shade", "both"}]

\* district_data of get_district_zones (308-357): for the districts that have
\* a point, zones[met][condition]
DistrictDatas == UNION {[S -> [Mets -> [Conds -> ZoneVals]]] : S \in SUBSET Districts}

\* is_nighttime_ist, lines 77-88
is_nighttime_ist(h) == h >= 18 \/ h < 6

\* variant: the subscriber's preference is used at night as well
get_effective_sun_shade_by_preference(subscriber_preference, is_night) ==
    IF subscriber_preference = "both" THEN <<"sun", "shade">>
    ELSE IF subscriber_preference = "sun" THEN <<"sun">>
    ELSE <<"shade">>

\* get_effective_sun_shade, lines 91-111
get_effective_sun_shade(subscriber_preference, is_night) ==
    IF is_night THEN <<"shade">>
    ELSE IF subscriber_preference = "both" THEN <<"sun", "shade">>
    ELSE IF subscriber_preference = "sun" THEN <<"sun">>
    ELSE <<"shade">>

Range(sq) == {sq[i] : i \in DOMAIN sq}

\* the (district, met_level, condition) the loops of lines 378-390 and
\* 693-701 visit
Visited(sub, dd, is_night) ==
    {<<d, m, c>> : d \in sub.districts \cap DOMAIN dd, m \in sub.met_levels,
                   c \in Range(get_effective_sun_shade(sub.sun_shade, is_night))}

\* an alert item (405-413) and an entry of the alert state (704-705):
\* <<district, met_level, condition, zone>>
Item(k, z) == <<k[1], k[2], k[3], z>>

\* check_subscriber_alerts, lines 360-415; previous_alerts.get(prev_key) is
\* z exactly when the entry Item(k, z) is in the state
check_subscriber_alerts(sub, dd, previous_alerts, is_night) ==
    {Item(k, dd[k[1]][k[2]][k[3]][1]) :
        k \in {v \in Visited(sub, dd, is_night) :
                 LET zone == dd[v[1]][v[2]][v[3]]
                 IN  /\ zone # None
                     /\ zone[1] \in sub.alert_zones
                     /\ Item(v, zone[1]) \notin previous_alerts}}

\* new_state['active_alerts'][email], lines 692-705:
\* `if zone and zone in subscriber['alert_zones']`
active_alerts(sub, dd, is_night) ==
    {Item(k, dd[k[1]][k[2]][k[3]][1]) :
        k \in {v \in Visited(sub, dd, is_night) :
                 LET zone == dd[v[1]][v[2]][v[3]]
                 IN  /\ zone # None /\ zone[1] # 0
                     /\ zone[1] \in sub.alert_zones}}

InitAlerts ==
    /\ subscriber \in Subscribers
    /\ hour = 6
    /\ district_data = <<>>
    /\ alert_state = {}
    /\ alerts = {}
    /\ runs = 0
    /\ sent = "none"

\* main, lines 621-736, when it reaches the subscriber loop: the hour, the
\* grid data and the fate of the e-mail are the inputs of the run
RunMain ==
    \E h \in Hours, dd \in DistrictDatas, mailed \in BOOLEAN :
      \E items \in {check_subscriber_alerts(subscriber, dd, alert_state,
                                              is_nighttime_ist(h))} :
        /\ hour' = h
        /\ district_data' = dd
        /\ alerts' = items
        /\ alert_state' = active_alerts(subscriber, dd, is_nighttime_ist(h))
        /\ sent' = IF items = {} THEN "none" ELSE IF mailed THEN "ok" ELSE "failed"
        /\ runs' = IF runs = 1 THEN 2 ELSE 1
        /\ UNCHANGED subscriber
        /\ UNCHANGED <<lookupVars, singletonVars, solveVars, indexVars, bracketVars, sheetVars>>

\* main returning before the loop (no password, no grid data, no subscriber
\* fetched: lines 634-636, 641-643, 665-667): nothing is written
RunSkipped ==
    /\ UNCHANGED alertVars
    /\ UNCHANGED <<lookupVars, singletonVars, solveVars, indexVars, bracketVars, sheetVars>>

(***************************************************************************)
(* auto_bracket_root and smart_bracket on their own (pilotehi350.py): the  *)
(* two first statements of safe_solve's try block, and smart_bracket       *)
(* called on any a, b.  The function f is any function, known by the       *)
(* signs it takes at the points evaluated.                                 *)
(***************************************************************************)
RestBracket ==
    /\ bpc = "idle" /\ bfs = <<>> /\ bauto = <<>> /\ bfrom = "none"
    /\ bin = <<>> /\ bnud = <<>> /\ bres = <<>>

\* a, b = auto_bracket_root(f, Tmin, Tmax)   (206)
CallAutoBracketRoot ==
    /\ bpc = "idle"
    /\ \E fs \in Samplings :
         /\ bfs' = fs
         /\ bauto' = auto_bracket_root(fs)
    /\ bpc' = "auto"
    /\ UNCHANGED <<bfrom, bin, bnud, bres>>
    /\ UNCHANGED <<lookupVars, singletonVars, solveVars, indexVars, alertVars, sheetVars>>

\* a, b = smart_bracket(f, a, b) on the pair of auto_bracket_root   (207)
SmartAfterAuto ==
    /\ bpc = "auto" /\ bauto.kind = "ok"
    /\ \E nud \in NudgeSigns :
         /\ bin' = <<bfs.sign[bauto.lo], bfs.sign[bauto.hi]>>
         /\ bnud' = nud
         /\ bres' = smart_bracket(bfs.sign[bauto.lo], bfs.sign[bauto.hi], nud)
    /\ bfrom' = "auto"
    /\ bpc' = "smart"
    /\ UNCHANGED <<bfs, bauto>>
    /\ UNCHANGED <<lookupVars, singletonVars, solveVars, indexVars, alertVars, sheetVars>>

\* smart_bracket(f, a, b) on any pair
CallSmartBracket ==
    /\ bpc = "idle"
    /\ \E sa \in Signs, sb \in Signs, nud \in NudgeSigns :
         /\ bin' = <<sa, sb>>
         /\ bnud' = nud
         /\ bres' = smart_bracket(sa, sb, nud)
    /\ bfrom' = "direct"
    /\ bpc' = "smart"
    /\ UNCHANGED <<bfs, bauto>>
    /\ UNCHANGED <<lookupVars, singletonVars, solveVars, indexVars, alertVars, sheetVars>>

(***************************************************************************)
(* The subscriber sheet (api/subscribe.py, with the status changes of      *)
(* alerting_system/verify.py and unsubscribe.py).  A row is kept by its    *)
(* e-mail, status and verification token; a uuid4 token is the number of   *)
(* tokens generated so far, plus one.                                      *)
(***************************************************************************)
MaxRows == 3    \* rows the sheet may reach

\* the e-mail field of a request body
RawEmails == {"a@x", "A@x", "b@x", "nobody", ""}

\* str.lower on those
lower(e) == IF e = "A@x" THEN "a@x" ELSE e

\* `if not email or '@' not in email` (lines 126-132)
bad_email(e) == e = "" \/ e = "nobody"

Requests == [email : RawEmails, districts : BOOLEAN]
NoRequest == [email |-> "", districts |-> FALSE]
NoResponse == [code |-> 0, did |-> "none"]

Row(e, st, tok) == [email |-> e, status |-> st, token |-> tok]

\* variant: the sheet is never searched
check_existing_subscriber_unread(sh, email, readOk) == 0

\* check_existing_subscriber, lines 55-63: the index of the first record whose
\* e-mail equals the given one, both lower-cased; 0 for (None, None), which
\* is also what the bare except returns when get_all_records raises
check_existing_subscriber(sh, email, readOk) ==
    IF ~readOk THEN 0
    ELSE LET hits == {i \in DOMAIN sh : lower(sh[i].email) = lower(email)}
         IN  IF hits = {} THEN 0 ELSE CHOOSE i \in hits : \A j \in hits : i <= j

InitSheet ==
    /\ sheet = <<>>
    /\ issued = 0
    /\ readFailed = FALSE
    /\ request = NoRequest
    /\ response = NoResponse
    /\ mail = <<>>

\* handler.do_POST, lines 110-202
Subscribe ==
    \E req \in Requests, readOk \in BOOLEAN :
      \E email \in {lower(req.email)} :
        /\ request' = req
        /\ IF bad_email(email)
           THEN /\ response' = [code |-> 400, did |-> "email_refused"]
                /\ mail' = <<>>
                /\ UNCHANGED <<sheet, issued, readFailed>>
           ELSE IF ~req.districts
           THEN /\ response' = [code |-> 400, did |-> "districts_refused"]
                /\ mail' = <<>>
                /\ UNCHANGED <<sheet, issued, readFailed>>
           ELSE /\ readFailed' = (readFailed \/ ~readOk)
                /\ \E i \in {check_existing_subscriber(sheet, email, readOk)} :
                     IF i # 0
                     THEN IF sheet[i].status = "verified"
                          THEN /\ response' = [code |-> 400, did |-> "already_subscribed"]
                               /\ mail' = <<>>
                               /\ UNCHANGED <<sheet, issued>>
                          ELSE /\ mail' = <<email, sheet[i].token>>
                               /\ response' = [code |-> 200, did |-> "resent"]
                               /\ UNCHANGED <<sheet, issued>>
                     ELSE /\ Len(sheet) < MaxRows
                          /\ issued' = issued + 1
                          /\ sheet' = Append(sheet, Row(email, "pending", issued + 1))
                          /\ mail' = <<email, issued + 1>>
                          /\ response' = [code |-> 200, did |-> "appended"]
        /\ UNCHANGED <<lookupVars, singletonVars, solveVars, indexVars, alertVars,
                       bracketVars>>

\* verify.py, lines 82-96: the row of a token becomes verified
Verify ==
    /\ \E i \in DOMAIN sheet :
         /\ sheet[i].status # "verified"
         /\ sheet' = [sheet EXCEPT ![i].status = "verified"]
    /\ UNCHANGED <<issued, readFailed, request, response, mail>>
    /\ UNCHANGED <<lookupVars, singletonVars, solveVars, indexVars, alertVars,
                   bracketVars>>

\* unsubscribe.py, lines 82-90: the row of a token becomes unsubscribed
Unsubscribe ==
    /\ \E i \in DOMAIN sheet :
         /\ sheet[i].status # "unsubscribed"
         /\ sheet' = [sheet EXCEPT ![i].status = "unsubscribed"]
    /\ UNCHANGED <<issued, readFailed, request, response, mail>>
    /\ UNCHANGED <<lookupVars, singletonVars, solveVars, indexVars, alertVars,
                   bracketVars>>

(***************************************************************************)
(* Specifications.  Each part runs alone; the variables of the other parts *)
(* rest at fixed values.                                                   *)
(***************************************************************************)
RestLookup ==
    /\ dirFound = TRUE /\ files = AllOk /\ grid = FullGrid
    /\ tables = <<>> /\ phase = "new" /\ ctorError = "none"
    /\ script = "grid" /\ batch = "idle"
    /\ lastQuery = NoQuery /\ lastResult = NoCall /\ siteResult = NoSite /\ out = <<>>

RestSolve ==
    /\ solver = "solve" /\ tol = 1 /\ maxIter = 0 /\ x1 = 0 /\ x2 = 0
    /\ a = 0 /\ b = 0 /\ fa = 0 /\ fb = 0 /\ iter = 0
    /\ spc = "start" /\ sresult = None /\ serror = "none" /\ evals = <<>>

RestIndex ==
    /\ Ta0 = FALSE /\ mpc = "find_eqvar" /\ epc = "Ts"
    /\ flux = <<>> /\ psTest = "na" /\ rsSolved = <<>> /\ failed = <<>>
    /\ eqvars = None
    /\ chain = "none" /\ cpc = "idle" /\ ctrace = <<>> /\ fsamp = <<>> /\ bracket = <<>>
    /\ Tres = NoneArg /\ region = "none"
    /\ mresult = NoneArg /\ merror = NoError
    /\ fed = "none"

RestAlerts ==
    /\ subscriber = [districts |-> Districts, met_levels |-> Mets,
                     alert_zones |-> {6}, sun_shade |-> "shade"]
    /\ hour = 6 /\ district_data = <<>> /\ alert_state = {} /\ alerts = {}
    /\ runs = 0 /\ sent = "none"

\* the lookup engine and its callers
Init == InitLookup /\ InitSingleton /\ RestSolve /\ RestIndex /\ RestAlerts
        /\ RestBracket /\ InitSheet
Next == Construct \/ FirstCall \/ NextKey \/ EndPoint
Spec == Init /\ [][Next]_vars

\* the singleton under threads
InitThreads == RestLookup /\ InitSingleton /\ RestSolve /\ RestIndex /\ RestAlerts
               /\ RestBracket /\ InitSheet
NextThreads == \E t \in Threads :
                 TestNone(t) \/ BuildInstance(t) \/ StoreInstance(t) \/ ReturnInstance(t)
SpecThreads == InitThreads /\ [][NextThreads]_vars

\* plain bisection
InitBisect == RestLookup /\ InitSingleton /\ InitSolve /\ RestIndex /\ RestAlerts
              /\ RestBracket /\ InitSheet
NextBisect == Enter \/ Iterate
SpecBisect == InitBisect /\ [][NextBisect]_vars

\* the heat index: one call of modifiedheatindex, then its T fed back
InitHeatIndex == RestLookup /\ InitSingleton /\ RestSolve /\ InitIndex /\ RestAlerts
                 /\ RestBracket /\ InitSheet
NextHeatIndex ==
    \/ SolveTs \/ SolveTf \/ Classify \/ SolveRf \/ SolveRsIV \/ SolveRsV
    \/ InvertPlain \/ AutoBracket \/ SmartBracket \/ Bisect \/ Minimize
    \/ Finish \/ FeedBack
SpecHeatIndex == InitHeatIndex /\ [][NextHeatIndex]_vars

\* the alert runs
InitAlertRuns == RestLookup /\ InitSingleton /\ RestSolve /\ RestIndex /\ InitAlerts
                 /\ RestBracket /\ InitSheet
NextAlertRuns == RunMain \/ RunSkipped
SpecAlertRuns == InitAlertRuns /\ [][NextAlertRuns]_vars

\* auto_bracket_root and smart_bracket called on any f
InitBracket == RestLookup /\ InitSingleton /\ RestSolve /\ RestIndex /\ RestAlerts
               /\ RestBracket /\ InitSheet
NextBracket == CallAutoBracketRoot \/ SmartAfterAuto \/ CallSmartBracket
SpecBracket == InitBracket /\ [][NextBracket]_vars

\* requests to the subscribe, verify and unsubscribe handlers, one at a time
InitSubscribe == RestLookup /\ InitSingleton /\ RestSolve /\ RestIndex /\ RestAlerts
                 /\ RestBracket /\ InitSheet
NextSubscribe == Subscribe \/ Verify \/ Unsubscribe
SpecSubscribe == InitSubscribe /\ [][NextSubscribe]_vars


(***************************************************************************)
(* Properties of the lookup engine (Spec).                                 *)
(***************************************************************************)
\* get_ehi_zone was called by the most recent call-site call
Called == batch # "idle" /\ lastResult.kind # "nocall"
QMet == KeyAt(lastQuery.pos)[1]
QSun == KeyAt(lastQuery.pos)[2]
QLoaded == KeyAt(lastQuery.pos) \in DOMAIN tables
QMeta == tables[KeyAt(lastQuery.pos)].metadata
QData == tables[KeyAt(lastQuery.pos)].data
\* the clamped query
QTemp == clamp_temp(QMeta, lastQuery.temp)
QRh == clamp_rh(QMeta, lastQuery.rh)
\* the exact snapped key
QTempKey == Fmt1(round_temp(QMeta, QTemp))
QRhKey == round_rh(QMeta, QRh)
QExactHit == QTempKey \in DOMAIN QData /\ QRhKey \in DOMAIN QData[QTempKey]

\* C1: once the lookup object is constructed, get_ehi_zone returns a pair and
\* never raises; every failure to find a cell comes back as the sentinel (None, 0).
C1_NeverRaises == Called => lastResult.kind = "return"

\* The fallback search as C2 describes it: the row of the temperature rounded
\* to 0.5, the entry at the humidity rounded to an integer, else the first
\* entry at offsets 1..9 outward (lower before higher), else (None, 0).
NearestAsDescribed(data, t, rh) ==
    LET tk == nearest_temp_key(t)
        rk == nearest_rh_key(rh)
    IN  IF tk \notin DOMAIN data THEN sentinel
        ELSE IF rk \in DOMAIN data[tk]
             THEN Return(data[tk][rk][1], data[tk][rk][2], "nearest")
             ELSE LET hits == {o \in 1..9 : rk - o \in DOMAIN data[tk] \/ rk + o \in DOMAIN data[tk]}
                  IN  IF hits = {} THEN sentinel
                      ELSE LET o == CHOOSE x \in hits : \A y \in hits : x <= y
                               k == IF rk - o \in DOMAIN data[tk] THEN rk - o ELSE rk + o
                           IN  Return(data[tk][k][1], data[tk][k][2], "nearest")

\* C2: when the exact snapped key is absent, the query returns what the
\* fallback search described above finds.
C2_FallbackAsDescribed ==
    (Called /\ QLoaded /\ ~QExactHit) => lastResult = NearestAsDescribed(QData, QTemp, QRh)

\* the nearest bound of [lo, hi] to x
NearestBound(x, lo, hi) == IF x < lo THEN lo ELSE IF x > hi THEN hi ELSE x
QNumeric == lastQuery.temp.tag = "num" /\ lastQuery.rh.tag = "num"
QTempOut == lastQuery.temp.v < QMeta.temp_min_c \/ lastQuery.temp.v > QMeta.temp_max_c
QRhOut == lastQuery.rh.v < QMeta.rh_min_pct \/ lastQuery.rh.v > QMeta.rh_max_pct

\* C3: a query with a coordinate outside the table's bounds returns exactly
\* what the query with that coordinate replaced by the nearest bound returns;
\* with both coordinates out of range and the corner cell stored, that is the
\* value stored at the corner.
C3_ClampedSameAsBound ==
    (Called /\ QLoaded /\ QNumeric /\ (QTempOut \/ QRhOut)) =>
        LET bt == NearestBound(lastQuery.temp.v, QMeta.temp_min_c, QMeta.temp_max_c)
            bh == NearestBound(lastQuery.rh.v, QMeta.rh_min_pct, QMeta.rh_max_pct)
        IN  /\ lastResult = get_ehi_zone(tables, Num(bt), Num(bh), QMet, QSun)
            /\ (QTempOut /\ QRhOut /\ Fmt1(bt) \in DOMAIN QData
                  /\ bh \div 2 \in DOMAIN QData[Fmt1(bt)])
               => lastResult = Return(QData[Fmt1(bt)][bh \div 2][1],
                                      QData[Fmt1(bt)][bh \div 2][2], "exact")

C3_Witness ==
    /\ Called /\ QLoaded /\ QNumeric
    /\ lastQuery.temp.v > QMeta.temp_max_c /\ lastQuery.rh.v > QMeta.rh_max_pct
    /\ lastResult.via = "exact"

\* C4: after clamping, each coordinate is snapped to a multiple of the table's
\* own step at most half a step away, and when that key is in data the stored
\* pair is returned by the exact path, without the fallback search.
C4_SnapsToOwnStep ==
    (Called /\ QLoaded) =>
        LET sv == round_temp(QMeta, QTemp)
            rv == 2 * round_rh(QMeta, QRh)
        IN  /\ sv % QMeta.temp_step_c = 0
            /\ 2 * Abs(sv - QTemp) <= QMeta.temp_step_c
            /\ rv % QMeta.rh_step_pct = 0
            /\ 2 * Abs(rv - QRh) <= QMeta.rh_step_pct
            /\ QExactHit => lastResult = Return(QData[QTempKey][QRhKey][1],
                                                QData[QTempKey][QRhKey][2], "exact")

C4_Witness ==
    /\ Called /\ QLoaded /\ QNumeric
    /\ QMeta.temp_step_c = 1 /\ QTemp % 2 = 1
    /\ QMeta.rh_step_pct = 4 /\ QRh % QMeta.rh_step_pct # 0
    /\ lastResult.via = "exact"

\* self.tables as the constructor left them
Loaded == load_tables(dirFound, files, grid).tables

\* C5: queries only read the tables: after any sequence of them self.tables
\* is what the constructor loaded, every result is the one the loaded tables
\* give for its arguments, and the query made twice for one row (key
\* (6, 'shade'), positions 7 and 9 of recalculate_file, with (6, 'sun') in
\* between) returns the same both times.
C5_PureRead ==
    phase = "ready" =>
        \A L \in {Loaded} :
            /\ tables = L
            /\ \A p \in 1..Len(out) :
                 out[p].lookup.kind # "nocall" =>
                    out[p].lookup = get_ehi_zone(L, lastQuery.temp, lastQuery.rh,
                                                 KeyAt(p)[1], KeyAt(p)[2])
            /\ Len(out) = 9 => out[9].lookup = out[7].lookup

C5_Witness ==
    /\ phase = "ready" /\ Len(out) = 9
    /\ out[7].lookup.via = "sentinel" /\ out[8].lookup.via = "sentinel"

\* C6: with any of the eight table files missing or unparsable, constructing
\* EHILookup fails; a constructed lookup holds all eight tables.
C6_NoPartialOperation ==
    phase = "ready" => (BadFiles(files) = {} /\ DOMAIN tables = Keys)

NoResult(s) == IF s = "grid" THEN SiteReturn(None, Some(0)) ELSE SiteReturn(None, None)
\* an absent reading: None in the weather record, None or NaN in the CSV row
Absent(s, x) == IF s = "grid" THEN x.tag = "None" ELSE x.tag \in {"None", "NaN"}

C7_LoadedOnce ==
    /\ nConstructed <= 1
    /\ \A t1 \in Threads, t2 \in Threads :
         (tpc[t1] = "done" /\ tpc[t2] = "done") => got[t1] = got[t2]

(***************************************************************************)
(* Properties of plain bisection (SpecBisect).                             *)
(***************************************************************************)
FailedAtOnce ==
    /\ spc = "raised" /\ serror = "InvalidBracket"
    /\ Len(evals) = 2 /\ sresult = None /\ iter = 0

Midpoints == Len(evals) - 2

\* C11: on a valid bracket, for every tol and every maxIter, plain bisection
\* either returns a midpoint at a moment when |a - b| < tol or fails with the
\* max-iterations error after maxIter iterations; it never returns None.
C11_NoSilentDegradation ==
    (spc \in {"returned", "raised"} /\ serror # "InvalidBracket") =>
        \/ /\ spc = "returned" /\ sresult # None
           /\ Abs(a - b) < tol
           /\ sresult[1] \in {a, b}
        \/ /\ spc = "raised" /\ serror = "MaxIterations"
           /\ Midpoints = maxIter

(***************************************************************************)
(* Properties of the heat index (SpecHeatIndex).                           *)
(***************************************************************************)
TryOrder == <<"auto", "smart", "bisect">>
\* the steps of the try block among the steps invoked so far
Tried == IF ctrace # <<>> /\ ctrace[Len(ctrace)][1] = "advanced"
         THEN Len(ctrace) - 1 ELSE Len(ctrace)

\* C12: safe_solve attempts automatic bracket search, bracket nudging and
\* bisection in that order, each only after the one before succeeded; the
\* minimizer runs only after one of them raised; and when all three succeed
\* the bisection value is what is returned and the minimizer is not invoked.
C12_FixedOrder ==
    chain = "safe_solve" =>
        /\ Tried <= 3
        /\ \A i \in 1..Tried : ctrace[i][1] = TryOrder[i]
        /\ \A i \in 1..(Tried - 1) : ctrace[i][2] = "ok"
        /\ Len(ctrace) > Tried => (Tried >= 1 /\ IsException(ctrace[Tried][2]))
        /\ (Tried = 3 /\ ctrace[3][2] = "value") =>
              (Len(ctrace) = 3 /\ cpc = "done" /\ Tres = SolvedT)

C12_Witness ==
    /\ chain = "safe_solve" /\ mpc = "returned"
    /\ ctrace = <<<<"auto", "ok">>, <<"smart", "ok">>, <<"bisect", "value">>>>

\* the chain of safe_solve is exhausted: the minimizer was run and failed
ChainExhausted ==
    /\ chain = "safe_solve" /\ ctrace # <<>>
    /\ ctrace[Len(ctrace)] = <<"advanced", "MinimizeFailed">>

\* C13: when the chain is exhausted, safe_solve, and with it find_T for Rs
\* and Rs*, fails with a root-finding error; no temperature (such as NaN) is
\* returned with a region label.
C13_ExhaustedIsFatal ==
    ChainExhausted => (mpc = "raised" /\ IsException(merror) /\ region = "none")

BracketingErrors == {"NoRoot", "NudgeFailed", "EndpointsSameSign", "InvalidBracket",
                     "MaxIterations"}

\* C14: in the Region VI inversion of find_T, when the bracket search finds
\* no sign change, or nudging fails, or bisection fails, the minimizer is
\* run next, as in safe_solve; the bracketing error does not leave find_T.
C14_RegionVIFallsBack ==
    chain = "find_T_VI" =>
        \A i \in 1..Len(ctrace) :
            (ctrace[i][1] \in {"auto", "smart", "bisect"} /\ ctrace[i][2] \in BracketingErrors)
               => /\ merror \notin BracketingErrors
                  /\ cpc = "advanced" \/ (Len(ctrace) > i /\ ctrace[i + 1][1] = "advanced")

\* C15 as stated: the name is phi when flux1 <= 0; else Rf when flux2 <= 0;
\* else, when flux3 < 0, Rs, or Rs* when the skin vapour pressure is above the
\* threshold; else dTcdt.
C15_FixedPriority ==
    eqvars # None =>
        IF flux[1] <= 0 THEN EqName = "phi"
        ELSE IF flux[2] <= 0 THEN EqName = "Rf"
        ELSE IF flux[3] < 0 THEN EqName = (IF psTest = "above" THEN "Rs*" ELSE "Rs")
        ELSE EqName = "dTcdt"

\* C15 with the promotion of lines 141-144: as above, except that with
\* flux3 < 0 and the skin vapour pressure above the threshold the name is
\* dTcdt when the re-solved Rs is below 0.004 and Rs* otherwise.  A test is
\* evaluated only when every earlier one failed.
C15_PriorityWithPromotion ==
    eqvars # None =>
        /\ EqName \in {"phi", "Rf", "Rs", "Rs*", "dTcdt"}
        /\ IF flux[1] <= 0 THEN EqName = "phi" /\ Len(flux) = 2 /\ psTest = "na"
           ELSE IF flux[2] <= 0 THEN EqName = "Rf" /\ Len(flux) = 2 /\ psTest = "na"
           ELSE IF flux[3] < 0
                THEN IF psTest = "below" THEN EqName = "Rs"
                     ELSE IF rsSolved[2] < Rs_min THEN EqName = "dTcdt"
                     ELSE EqName = "Rs*"
           ELSE EqName = "dTcdt" /\ psTest = "na"

C15_Witness ==
    /\ eqvars # None /\ EqName = "dTcdt"
    /\ flux[1] > 0 /\ flux[2] > 0 /\ flux[3] < 0 /\ psTest = "above"

\* C16: a nested root-find of find_eqvar that fails ends the call with that
\* very error: nothing runs after it, no list is returned, and the error is
\* the one that leaves the caller.
C16_NestedFailurePropagates ==
    /\ failed # <<>> =>
          /\ Len(failed) = 1
          /\ epc = "raised" /\ eqvars = None
          /\ mpc = "raised" /\ merror = failed[1]
          /\ cpc = "idle" /\ Tres = NoneArg
    /\ eqvars # None => failed = <<>>

C16_Witness == failed # <<>> /\ epc = "raised" /\ Len(flux) = 3 /\ psTest = "above"

\* C17: with Ta = 0 a call of modifiedheatindex in which find_eqvar returned
\* comes back with index temperature 0, whatever the regime selected.
C17_ZeroAirTemperature ==
    (Ta0 /\ eqvars # None) =>
        /\ mpc # "raised"
        /\ mpc = "returned" => mresult = Num(0)

\* C18: the T returned by find_T, fed back through find_eqvar under the
\* reference scenario, reproduces the equilibrium value within tolerance.
C18_RoundTrip ==
    (mpc = "returned" /\ fed # "none") => fed = "within"

(***************************************************************************)
(* Properties of the alert runs (SpecAlertRuns).                           *)
(***************************************************************************)
AlertKeys == Districts \X Mets \X Conds
KeyOf(it) == <<it[1], it[2], it[3]>>
ZoneAt(dd, k) == IF k[1] \in DOMAIN dd THEN dd[k[1]][k[2]][k[3]] ELSE None

\* C19: over two consecutive runs in the same day/night mode, a key whose
\* zone is the same in both gets no alert item in the second; an alert item
\* is generated only for a zone of the subscriber's alert zones that the
\* previous run did not record for the key.
C19_NoRepeatedAlert ==
    [][(runs # 0 /\ runs' # runs /\ is_nighttime_ist(hour') = is_nighttime_ist(hour)) =>
         \A k \in AlertKeys :
            /\ ZoneAt(district_data', k) = ZoneAt(district_data, k)
                  => \A it \in alerts' : KeyOf(it) # k
            /\ \A it \in alerts' :
                  KeyOf(it) = k => (it[4] \in subscriber.alert_zones /\ it \notin alert_state)
      ]_vars

\* C20: in a nighttime run (hour >= 18 or < 6) every alert item generated
\* and every key written to the alert state has condition 'shade', whatever
\* the subscriber's sun/shade preference.
C20_NightIsShade ==
    (runs # 0 /\ (hour >= 18 \/ hour < 6)) =>
        \A it \in alerts \cup alert_state : it[3] = "shade"

C20_Witness ==
    /\ runs # 0 /\ hour >= 18
    /\ subscriber.sun_shade = "both"
    /\ \E d \in DOMAIN district_data :
          /\ district_data[d][6]["sun"] = Some(6)
          /\ district_data[d][6]["shade"] = Some(5)
    /\ 5 \in subscriber.alert_zones /\ 6 \in subscriber.alert_zones
    /\ alerts # {}

\* the keys a run visits for the subscriber, with the run's data and mode
VisitedNow == Visited(subscriber, district_data, is_nighttime_ist(hour))

\* C21: in every run, a visited key of the subscriber whose zone is 6, and
\* for which the previous run recorded no zone 6, gets an alert item,
\* whatever alert_zones the subscriber stored.
C21_Zone6AlwaysAlerts ==
    [][runs' # runs =>
         \A k \in VisitedNow' :
            (ZoneAt(district_data', k) = Some(6) /\ Item(k, 6) \notin alert_state)
               => Item(k, 6) \in alerts'
      ]_vars

\* C29: after a run, the saved state of the subscriber holds exactly the
\* visited keys whose current zone is in the subscriber's alert zones, each
\* with that zone, whether or not the e-mail was sent.
C29_StateIsCurrentZones ==
    runs # 0 =>
        alert_state =
            {Item(k, ZoneAt(district_data, k)[1]) :
                k \in {v \in VisitedNow :
                         /\ ZoneAt(district_data, v) # None
                         /\ ZoneAt(district_data, v)[1] \in subscriber.alert_zones}}

\* p lies in the initial interval of the root-find
Inside(p) ==
    /\ (IF x1 <= x2 THEN x1 ELSE x2) <= p
    /\ p <= (IF x1 <= x2 THEN x2 ELSE x1)

\* C22: in solve and in solve_bisection, after every iteration the bracket
\* [a, b] lies in the initial interval, has f(a) * f(b) <= 0 and is exactly
\* half as wide as before the iteration; and the value returned is a
\* midpoint lying inside the initial interval.
C22_BisectionInvariant ==
    [][/\ spc = "loop" =>
            /\ Inside(a') /\ Inside(b')
            /\ fa' * fb' <= 0
            /\ 2 * Abs(a' - b') = Abs(a - b)
       /\ spc' = "returned" =>
            /\ sresult' # None
            /\ spc = "loop" /\ 2 * sresult'[1] = a + b
            /\ Inside(sresult'[1])
      ]_vars

\* the part of C22 that concerns calls with maxIter >= 1
C22_WithIterations ==
    [][maxIter >= 1 =>
         /\ spc = "loop" =>
              /\ Inside(a') /\ Inside(b')
              /\ fa' * fb' <= 0
              /\ 2 * Abs(a' - b') = Abs(a - b)
         /\ spc' = "returned" =>
              /\ sresult' # None
              /\ spc = "loop" /\ 2 * sresult'[1] = a + b
              /\ Inside(sresult'[1])
      ]_vars

\* C23: in safe_solve, a step of the try block (bracket search, nudging,
\* bisection) that raised anything, the SystemExit of a solve called inside
\* f included, is followed by the minimizer; the error does not leave
\* safe_solve.
C23_StepErrorsCaught ==
    chain = "safe_solve" =>
        \A i \in 1..Len(ctrace) :
            (ctrace[i][1] \in {"auto", "smart", "bisect"} /\ ctrace[i][2] \notin {"ok", "value"})
               => /\ cpc = "advanced" \/ (Len(ctrace) > i /\ ctrace[i + 1][1] = "advanced")
                  /\ ~(mpc = "raised" /\ merror = ctrace[i][2])

\* auto_bracket_root was called and every evaluation of f returned
Sampled == ctrace # <<>> /\ ctrace[1][1] = "auto" /\ fsamp.exit = 0
\* the samples i and i + 1 differ in sign
SignChange(i) == fsamp.sign[i] # fsamp.sign[i + 1]

\* C24: auto_bracket_root returns the lowest-indexed pair of adjacent sample
\* points whose values differ in sign, a zero differing from a non-zero
\* neighbour, and raises the no-bracket error exactly when no adjacent pair
\* differs.
C24_FirstSignChange ==
    Sampled =>
        /\ ctrace[1][2] \in {"ok", "NoRoot"}
        /\ ctrace[1][2] = "NoRoot" <=> (\A i \in 1..(NSamples - 1) : ~SignChange(i))
        /\ ctrace[1][2] = "ok" =>
              /\ bracket[1] \in 1..(NSamples - 1) /\ bracket[2] = bracket[1] + 1
              /\ SignChange(bracket[1])
              /\ \A i \in 1..(bracket[1] - 1) : ~SignChange(i)

C24_Witness ==
    /\ Sampled /\ ctrace[1][2] = "ok"
    /\ bracket[1] = 2 /\ fsamp.sign[2] # 0 /\ fsamp.sign[3] = 0

\* C26: with flux3 < 0, a solved Rs below 0.004 is clamped to 0.004 and the
\* result is promoted to dTcdt; no list named Rs or Rs* carries Rs < 0.004.
C26_RsClamped ==
    (eqvars # None /\ Len(flux) = 3 /\ flux[3] < 0) =>
        /\ rsSolved[Len(rsSolved)] < Rs_min =>
              (EqName = "dTcdt" /\ eqvars[1].Rs = Rs_min)
        /\ EqName \in {"Rs", "Rs*"} => eqvars[1].Rs >= Rs_min

\* C27: a list named dTcdt has Rs = 0.004 and dTcdt = flux3 / C with
\* flux3 >= 0; a negative drift rate is never reported under that name.
C27_RegionVIWarming ==
    (eqvars # None /\ EqName = "dTcdt") =>
        /\ eqvars[1].Rs = Rs_min
        /\ eqvars[1].dTcdt = flux[3]
        /\ flux[3] >= 0

\* C28: in the list find_eqvar returns, dTcdt = 0 unless the name is dTcdt;
\* phi = 0.84 unless the name is phi; Rs = 0.0387 when the name is phi or Rf;
\* Rf is +infinity when the name is phi and 0 when it is Rs, Rs* or dTcdt.
C28_FrameFields ==
    eqvars # None =>
        /\ EqName # "dTcdt" => eqvars[1].dTcdt = 0
        /\ EqName # "phi" => eqvars[1].phi = phi_init
        /\ EqName \in {"phi", "Rf"} => eqvars[1].Rs = Rs_init
        /\ EqName = "phi" => eqvars[1].Rf = Inf
        /\ EqName \in {"Rs", "Rs*", "dTcdt"} => eqvars[1].Rf = Num(0)

C28_Witness ==
    /\ eqvars # None /\ EqName = "Rs*"
    /\ eqvars[1].Rs # Rs_init /\ eqvars[1].Rs # Rs_min

(***************************************************************************)
(* Properties of the bracket search on its own (SpecBracket).              *)
(***************************************************************************)
\* the sign of f at a after j nudges of a, and at b after j nudges of b
SignA(j) == IF j = 0 THEN bin[1] ELSE bnud[j][1]
SignB(j) == IF j = 0 THEN bin[2] ELSE bnud[j][2]
\* round k finds a sign change: at the nudged a against b, or at a against
\* the nudged b
RoundSucceeds(k) == SignA(k) # SignB(k - 1) \/ SignA(k - 1) # SignB(k)

\* C25: smart_bracket returns a, b unchanged when the signs of f(a) and f(b)
\* differ; otherwise it makes at most max_nudges rounds, a moved up and b
\* moved down by one nudge per round, and raises exactly when no round
\* succeeds; the pair it returns has differing signs; and on the pair of
\* auto_bracket_root, as in safe_solve, it returns the pair unchanged.
C25_NudgedBracket ==
    bpc = "smart" =>
        /\ bin[1] # bin[2] => (bres.kind = "ok" /\ bres.up = 0 /\ bres.down = 0)
        /\ bin[1] = bin[2] =>
              /\ bres.kind = "raise" <=> (\A k \in 1..max_nudges : ~RoundSucceeds(k))
              /\ bres.kind = "raise" => bres.exc = "NudgeFailed"
              /\ bres.kind = "ok" =>
                    \E k \in 1..max_nudges :
                       /\ <<bres.up, bres.down>> \in {<<k, k - 1>>, <<k - 1, k>>}
                       /\ \A j \in 1..(k - 1) : ~RoundSucceeds(j)
        /\ bres.kind = "ok" => SignA(bres.up) # SignB(bres.down)
        /\ bfrom = "auto" => (bres.kind = "ok" /\ bres.up = 0 /\ bres.down = 0)

C25_Witness ==
    /\ bpc = "smart" /\ bfrom = "direct" /\ bin[1] = bin[2]
    /\ bres.kind = "ok" /\ bres.up = 2 /\ bres.down = 3
    /\ bnud[3][2] # bnud[2][1]

(***************************************************************************)
(* Properties of the subscriber sheet (SpecSubscribe).                     *)
(***************************************************************************)
\* two e-mail addresses that differ at most by case
SameAddress(e1, e2) == e1 = e2 \/ {e1, e2} = {"a@x", "A@x"}
\* the rows of sh that hold the address e
RowsHolding(sh, e) == {i \in DOMAIN sh : SameAddress(sh[i].email, e)}
OneRowPerAddress(sh) ==
    \A i \in DOMAIN sh, j \in DOMAIN sh : SameAddress(sh[i].email, sh[j].email) => i = j
\* a step of the subscribe handler: the verify and unsubscribe handlers
\* change the status of a row, the subscribe handler never does
SubscribeStep == \A i \in DOMAIN sheet : i \in DOMAIN sheet' /\ sheet'[i] = sheet[i]
ValidRequest(req) == req.email \in {"a@x", "A@x", "b@x"} /\ req.districts

====
